---- MODULE Spec2Model ----
(***************************************************************************)
(* Model of xbmgmt2's "dump" sub-command (SubCmdDump.cpp): one run of      *)
(* SubCmdDump::execute, with flash_dump, is_supported and config_dump.     *)
(* Every call that leaves the file (device resolution, the flasher, the    *)
(* device queries, the ini writer, the filesystem) is answered by the      *)
(* environment when the call is made.                                      *)
(***************************************************************************)
EXTENDS Integers, Sequences, FiniteSets, TLC

VARIABLES
    pc,          \* position inside execute
    m_device,    \* --device option
    m_output,    \* --output option
    m_flash,     \* --flash switch
    m_config,    \* --config switch
    m_help,      \* --help switch
    force,       \* XBU::getForce(), the process-wide force flag
    fs,          \* the filesystem: path -> file
    fs0,         \* the filesystem as it was when execute was called
    device,      \* the resolved std::shared_ptr<xrt_core::device>
    child,       \* the property tree built by config_dump
    is_versal,   \* config_dump's local
    result,      \* how execute ended
    cerr,        \* messages written to std::cerr
    cout,        \* messages written to std::cout
    is_mfg,      \* is_supported's local
    is_recovery, \* is_supported's local
    scaling,     \* what the device answers to the three scaling queries asked
    calls        \* the external calls issued so far, in order, with their answers

vars == <<pc, m_device, m_output, m_flash, m_config, m_help, force, fs, fs0,
          device, child, is_versal, result, cerr, cout, is_mfg, is_recovery,
          scaling, calls>>

(* ------------------------------ bounds -------------------------------- *)

\* device indexes are 0..MaxDeviceId
MaxDeviceId == 1
\* every query answers a value in 0..MaxValue
MaxValue == 1

DeviceIds == 0..MaxDeviceId
Values == 0..MaxValue

\* the value --device is given
Devices == {"0000:d8:00.0"}
\* the paths of the filesystem
Paths == {"foo.bin", "bar.ini"}
\* the values --output can take: not given, or a path
Outputs == {"", "foo.bin"}

(* ------------------------------ values -------------------------------- *)

\* a file of the filesystem
NoFile == [kind |-> "absent", section |-> "", data |-> <<>>]
OldFile == [kind |-> "old", section |-> "", data |-> <<>>]
\* what Flasher::readBack leaves when it ran to its end
FlashImage == [kind |-> "flash", section |-> "", data |-> <<>>]
\* what a writer that failed half way may leave
PartialFile == [kind |-> "partial", section |-> "", data |-> <<>>]

\* a null shared_ptr, and a device with its index
NullDevice == [valid |-> FALSE, id |-> 0]
Device(i) == [valid |-> TRUE, id |-> i]

\* the answer of one device_query: a value, or xrt_core::query::exception
Answer(v) == [ok |-> TRUE, val |-> v]
QueryException == [ok |-> FALSE, val |-> 0]
Answers == {Answer(v) : v \in Values} \cup {QueryException}
\* the answer of a boolean query
BoolAnswers == {Answer(0), Answer(1), QueryException}

\* one external call and what it answered
Call(name, ok, val) == [name |-> name, ok |-> ok, val |-> val]
Bit(b) == IF b THEN 1 ELSE 0

Msg(t) == [text |-> t, index |-> 0]
MsgIndex(t, i) == [text |-> t, index |-> i]

\* the mandatory keys with the two xclbin keys taken for each other
MandatoryKeys_Swapped == <<"mailbox_channel_disable", "mailbox_channel_switch",
                           "cache_xclbin", "xclbin_change">>

MandatoryKeys == <<"mailbox_channel_disable", "mailbox_channel_switch",
                   "xclbin_change", "cache_xclbin">>
MandatoryQueries == <<"config_mailbox_channel_disable", "config_mailbox_channel_switch",
                      "config_xclbin_change", "cache_xclbin">>
ScalingKeys == <<"scaling_enabled", "scaling_power_override", "scaling_temp_override">>
XgqQueries == <<"xgq_scaling_enabled", "xgq_scaling_power_override",
                "xgq_scaling_temp_override">>
XmcQueries == <<"xmc_scaling_enabled", "xmc_scaling_power_override",
                "xmc_scaling_temp_override">>

(* ---------------------------- pure helpers ---------------------------- *)

\* ptree::put: the value of an existing key is replaced, a new key is appended
put(tree, key, value) ==
    IF \E i \in 1..Len(tree) : tree[i].key = key
    THEN [i \in 1..Len(tree) |->
             IF tree[i].key = key THEN [key |-> key, val |-> value] ELSE tree[i]]
    ELSE Append(tree, [key |-> key, val |-> value])

\* the file at a path; no file is at a path the filesystem does not have
FileAt(f, path) == IF path \in DOMAIN f THEN f[path] ELSE NoFile

\* the filesystem after a writer left `file` at `path`
Written(f, path, file) == IF path \in DOMAIN f THEN [f EXCEPT ![path] = file] ELSE f

\* boost::filesystem::exists
exists(f, path) == FileAt(f, path).kind # "absent"

Keys(tree) == {tree[i].key : i \in 1..Len(tree)}
Range(s) == {s[i] : i \in 1..Len(s)}

(* ------------------------------- Init --------------------------------- *)

\* the state after SubCmdDump's constructor; the filesystem and the force
\* flag are the process's environment. The file --output can name is there
\* or not; the other file is there, so that a write to it would show
Init ==
    /\ pc = "process_arguments"
    /\ m_device = ""
    /\ m_output = ""
    /\ m_flash = FALSE
    /\ m_config = FALSE
    /\ m_help = FALSE
    /\ force \in BOOLEAN
    /\ fs \in [Paths -> {NoFile, OldFile}]
    /\ \A p \in Paths \ Outputs : fs[p] = OldFile
    /\ fs0 = fs
    /\ device = NullDevice
    /\ child = <<>>
    /\ is_versal = FALSE
    /\ result = "running"
    /\ cerr = <<>>
    /\ cout = <<>>
    /\ is_mfg = FALSE
    /\ is_recovery = FALSE
    /\ scaling = <<>>
    /\ calls = <<>>

(* ------------------------------ execute ------------------------------- *)

\* the option parsing without the return after the help was printed
ProcessArguments_NoHelpReturn ==
    /\ pc = "process_arguments"
    /\ \E d \in Devices, o \in Outputs, f \in BOOLEAN, c \in BOOLEAN, h \in BOOLEAN :
          /\ m_device' = d
          /\ m_output' = o
          /\ m_flash' = f
          /\ m_config' = c
          /\ m_help' = h
          /\ cout' = IF h THEN Append(cout, Msg("help")) ELSE cout
          /\ result' = result
          /\ pc' = "get_device"
    /\ UNCHANGED <<force, fs, fs0, device, child, is_versal, cerr, is_mfg,
                   is_recovery, scaling, calls>>

\* execute, lines 146-153: the options are parsed; --help prints the help
\* and returns
ProcessArguments ==
    /\ pc = "process_arguments"
    /\ \E d \in Devices, o \in Outputs, f \in BOOLEAN, c \in BOOLEAN, h \in BOOLEAN :
          /\ m_device' = d
          /\ m_output' = o
          /\ m_flash' = f
          /\ m_config' = c
          /\ m_help' = h
          /\ IF h
             THEN /\ cout' = Append(cout, Msg("help"))
                  /\ result' = "returned"
                  /\ pc' = "done"
             ELSE /\ cout' = cout
                  /\ result' = result
                  /\ pc' = "get_device"
    /\ UNCHANGED <<force, fs, fs0, device, child, is_versal, cerr, is_mfg,
                   is_recovery, scaling, calls>>

\* the device resolution reporting the failure and going on without a device
GetDevice_GoesOn ==
    /\ pc = "get_device"
    /\ \/ \E i \in DeviceIds :
             /\ calls' = Append(calls, Call("get_device", TRUE, i))
             /\ device' = Device(i)
             /\ UNCHANGED cerr
       \/ /\ calls' = Append(calls, Call("get_device", FALSE, 0))
          /\ cerr' = Append(cerr, Msg("ERROR: get_device"))
          /\ UNCHANGED device
    /\ pc' = "output"
    /\ UNCHANGED <<m_device, m_output, m_flash, m_config, m_help, force, fs0, fs,
                   child, is_versal, result, cout, is_mfg, is_recovery, scaling>>

\* execute, lines 164-172: XBU::get_device resolves the device or throws a
\* std::runtime_error, which is reported and turned into operation_canceled
GetDevice ==
    /\ pc = "get_device"
    /\ \/ \E i \in DeviceIds :
             /\ calls' = Append(calls, Call("get_device", TRUE, i))
             /\ device' = Device(i)
             /\ pc' = "output"
             /\ UNCHANGED <<result, cerr>>
       \/ /\ calls' = Append(calls, Call("get_device", FALSE, 0))
          /\ cerr' = Append(cerr, Msg("ERROR: get_device"))
          /\ result' = "operation_canceled"
          /\ pc' = "done"
          /\ UNCHANGED device
    /\ UNCHANGED <<m_device, m_output, m_flash, m_config, m_help, force, fs0, fs,
                   child, is_versal, cout, is_mfg, is_recovery, scaling>>

\* the output check without its test of an existing file
OutputVerdict_NoExists(output, f, frc) ==
    IF output = "" THEN "empty" ELSE "ok"

\* the output check without its test of an empty path
OutputVerdict_NoEmpty(output, f, frc) ==
    IF output # "" /\ exists(f, output) /\ ~frc THEN "exists" ELSE "ok"

\* the output check refusing an existing file whatever the force flag is
OutputVerdict_NoForce(output, f, frc) ==
    IF output = "" THEN "empty"
    ELSE IF exists(f, output) THEN "exists"
    ELSE "ok"

\* execute, lines 178-186: what the two checks of the output option decide
OutputVerdict(output, f, frc) ==
    IF output = "" THEN "empty"
    ELSE IF output # "" /\ exists(f, output) /\ ~frc THEN "exists"
    ELSE "ok"

\* execute, lines 176-186: the output option is checked
ProcessOutput ==
    /\ pc = "output"
    /\ calls' = IF m_output = "" THEN calls
                ELSE Append(calls, Call("exists", TRUE, Bit(exists(fs, m_output))))
    /\ LET v == OutputVerdict(m_output, fs, force) IN
          \/ /\ v = "empty"
             /\ cerr' = Append(cerr, Msg("ERROR: Please specify an output file"))
             /\ cout' = Append(cout, Msg("help"))
             /\ result' = "operation_canceled"
             /\ pc' = "done"
          \/ /\ v = "exists"
             /\ cerr' = Append(cerr, Msg("m_output file already exists"))
             /\ result' = "operation_canceled"
             /\ pc' = "done"
             /\ UNCHANGED cout
          \/ /\ v = "ok"
             /\ pc' = "dump_type"
             /\ UNCHANGED <<result, cerr, cout>>
    /\ UNCHANGED <<m_device, m_output, m_flash, m_config, m_help, force, fs0, fs,
                   device, child, is_versal, is_mfg, is_recovery, scaling>>

\* the dump decision falling back to the configuration dump
DumpType_DefaultConfig(flash, config) ==
    IF flash THEN "flash" ELSE "config"

\* the dump decision with the two tests in the other order
DumpType_ConfigFirst(flash, config) ==
    IF config THEN "config"
    ELSE IF flash THEN "flash"
    ELSE "none"

\* execute, lines 189-200: which dump the two switches select
DumpType(flash, config) ==
    IF flash THEN "flash"
    ELSE IF config THEN "config"
    ELSE "none"

\* execute, lines 188-200: the contents of the dump file are decided
DecideDump ==
    /\ pc = "dump_type"
    /\ LET t == DumpType(m_flash, m_config) IN
          \/ /\ t = "flash"
             /\ pc' = "flash_dump"
             /\ UNCHANGED <<result, cerr, cout>>
          \/ /\ t = "config"
             /\ pc' = "config_dump"
             /\ UNCHANGED <<result, cerr, cout>>
          \/ /\ t = "none"
             /\ cerr' = Append(cerr, Msg("ERROR: Please specify a valid option"))
             /\ cout' = Append(cout, Msg("help"))
             /\ result' = "operation_canceled"
             /\ pc' = "done"
    /\ UNCHANGED <<m_device, m_output, m_flash, m_config, m_help, force, fs0, fs,
                   device, child, is_versal, is_mfg, is_recovery, scaling, calls>>

(* ----------------------------- flash_dump ----------------------------- *)

\* flash_dump, lines 36-40, and execute, line 191: the flasher is opened for
\* the device's index. When it is not valid an xrt_core::error carrying the
\* index is constructed, not thrown, and flash_dump returns; execute returns
FlasherOpen ==
    /\ pc = "flash_dump"
    /\ \E valid \in BOOLEAN :
          /\ calls' = Append(calls, Call("Flasher", TRUE, Bit(valid)))
          /\ IF valid
             THEN /\ pc' = "readBack"
                  /\ result' = result
             ELSE /\ pc' = "done"
                  /\ result' = "returned"
    /\ UNCHANGED <<m_device, m_output, m_flash, m_config, m_help, force, fs0, fs,
                   device, child, is_versal, cerr, cout, is_mfg, is_recovery,
                   scaling>>

\* the flash branch of execute without its return: after flash_dump the
\* config switch is tested, then the usage error is raised
ReadBack_FallsThrough ==
    /\ pc = "readBack"
    /\ \/ /\ calls' = Append(calls, Call("readBack", TRUE, 0))
          /\ fs' = Written(fs, m_output, FlashImage)
          /\ IF m_config
             THEN /\ pc' = "config_dump"
                  /\ UNCHANGED <<result, cerr, cout>>
             ELSE /\ pc' = "done"
                  /\ cerr' = Append(cerr, Msg("ERROR: Please specify a valid option"))
                  /\ cout' = Append(cout, Msg("help"))
                  /\ result' = "operation_canceled"
       \/ /\ calls' = Append(calls, Call("readBack", FALSE, 0))
          /\ \E left \in {FileAt(fs, m_output), PartialFile} :
                fs' = Written(fs, m_output, left)
          /\ cerr' = Append(cerr, Msg("ERROR: readBack"))
          /\ result' = "operation_canceled"
          /\ pc' = "done"
          /\ UNCHANGED cout
    /\ UNCHANGED <<m_device, m_output, m_flash, m_config, m_help, force, fs0,
                   device, child, is_versal, is_mfg, is_recovery, scaling>>

\* the read-back without its try block: the exception of readBack leaves
\* flash_dump as it is, unreported
ReadBack_Uncaught ==
    /\ pc = "readBack"
    /\ \/ /\ calls' = Append(calls, Call("readBack", TRUE, 0))
          /\ fs' = Written(fs, m_output, FlashImage)
          /\ result' = "returned"
       \/ /\ calls' = Append(calls, Call("readBack", FALSE, 0))
          /\ \E left \in {FileAt(fs, m_output), PartialFile} :
                fs' = Written(fs, m_output, left)
          /\ result' = "std_exception"
    /\ pc' = "done"
    /\ UNCHANGED <<m_device, m_output, m_flash, m_config, m_help, force, fs0,
                   device, child, is_versal, cerr, cout, is_mfg, is_recovery,
                   scaling>>

\* flash_dump, lines 41-46, and execute, line 191: the flash is read back into
\* the output file; an exception is reported and turned into
\* operation_canceled, and may leave a part of the file behind
ReadBack ==
    /\ pc = "readBack"
    /\ \/ /\ calls' = Append(calls, Call("readBack", TRUE, 0))
          /\ fs' = Written(fs, m_output, FlashImage)
          /\ result' = "returned"
          /\ UNCHANGED cerr
       \/ /\ calls' = Append(calls, Call("readBack", FALSE, 0))
          /\ \E left \in {FileAt(fs, m_output), PartialFile} :
                fs' = Written(fs, m_output, left)
          /\ cerr' = Append(cerr, Msg("ERROR: readBack"))
          /\ result' = "operation_canceled"
    /\ pc' = "done"
    /\ UNCHANGED <<m_device, m_output, m_flash, m_config, m_help, force, fs0,
                   device, child, is_versal, cout, is_mfg, is_recovery, scaling>>

(* ---------------------------- config_dump ----------------------------- *)

\* the mandatory queries inside a catch that leaves the key out and goes on
QueryMandatory_Swallows ==
    /\ pc = "config_dump"
    /\ LET i == Cardinality({k \in 1..Len(calls) :
                    calls[k].name \in Range(MandatoryQueries)}) + 1 IN
       \E a \in Answers :
          /\ calls' = Append(calls, Call(MandatoryQueries[i], a.ok, a.val))
          /\ child' = IF a.ok THEN put(child, MandatoryKeys[i], a.val) ELSE child
          /\ pc' = IF i = Len(MandatoryKeys) THEN "is_supported" ELSE "config_dump"
          /\ result' = result
    /\ UNCHANGED <<m_device, m_output, m_flash, m_config, m_help, force, fs0, fs,
                   device, is_versal, cerr, cout, is_mfg, is_recovery, scaling>>

\* config_dump, lines 85-88, and execute, line 194: the next mandatory key is
\* queried and put into the tree; a query exception is caught nowhere and
\* leaves execute as it is
QueryMandatory ==
    /\ pc = "config_dump"
    /\ LET i == Len(child) + 1 IN
       \E a \in Answers :
          /\ calls' = Append(calls, Call(MandatoryQueries[i], a.ok, a.val))
          /\ IF a.ok
             THEN /\ child' = put(child, MandatoryKeys[i], a.val)
                  /\ pc' = IF i = Len(MandatoryKeys) THEN "is_supported" ELSE "config_dump"
                  /\ result' = result
             ELSE /\ child' = child
                  /\ pc' = "done"
                  /\ result' = "query_exception"
    /\ UNCHANGED <<m_device, m_output, m_flash, m_config, m_help, force, fs0, fs,
                   device, is_versal, cerr, cout, is_mfg, is_recovery, scaling>>

\* a probe whose exception is taken for a restricted device
Probe_ExceptionRestricts(a) == ~a.ok \/ a.val = 1

\* is_supported, lines 55-61: a probe that throws leaves its local false
Probe(a) == a.ok /\ a.val = 1

\* the support test looking at the manufacturing probe only
Supported_MfgOnly(mfg, recovery) == ~mfg

\* is_supported, lines 63-68
Supported(mfg, recovery) == ~(mfg \/ recovery)

\* is_supported, lines 52-69, and config_dump, line 90: both probes are
\* issued; a restricted device is reported and its scaling keys are skipped
IsSupported ==
    /\ pc = "is_supported"
    /\ \E a \in BoolAnswers, b \in BoolAnswers :
          /\ calls' = calls \o <<Call("is_mfg", a.ok, a.val),
                                 Call("is_recovery", b.ok, b.val)>>
          /\ is_mfg' = Probe(a)
          /\ is_recovery' = Probe(b)
          /\ IF Supported(Probe(a), Probe(b))
             THEN /\ pc' = "is_versal"
                  /\ cerr' = cerr
             ELSE /\ pc' = "write_ini"
                  /\ cerr' = Append(cerr, Msg(IF Probe(a)
                                THEN "not supported with manufacturing image"
                                ELSE "not supported with recovery image"))
    /\ UNCHANGED <<m_device, m_output, m_flash, m_config, m_help, force, fs0, fs,
                   device, child, is_versal, result, cout, scaling>>

\* config_dump, line 91: the variant is queried outside every try block, so a
\* query exception leaves execute as it is
QueryIsVersal ==
    /\ pc = "is_versal"
    /\ \E a \in BoolAnswers :
          /\ calls' = Append(calls, Call("is_versal", a.ok, a.val))
          /\ IF a.ok
             THEN /\ is_versal' = (a.val = 1)
                  /\ pc' = "scaling"
                  /\ result' = result
             ELSE /\ is_versal' = is_versal
                  /\ pc' = "done"
                  /\ result' = "query_exception"
    /\ UNCHANGED <<m_device, m_output, m_flash, m_config, m_help, force, fs0, fs,
                   device, child, cerr, cout, is_mfg, is_recovery, scaling>>

\* the scaling queries of the xmc family asked whatever the variant is
ScalingQueries_AlwaysXmc(versal) == XmcQueries

\* config_dump, lines 92 and 98: the query family of the variant
ScalingQueries(versal) == IF versal THEN XgqQueries ELSE XmcQueries

\* every scaling query issued, also after one of them threw
Issued_All(answers) == Len(answers)

\* config_dump, lines 93-97 and 99-103: how many of the three queries are
\* issued: the first one that throws leaves the try block
Issued(answers) ==
    IF \E i \in 1..Len(answers) : ~answers[i].ok
    THEN CHOOSE i \in 1..Len(answers) :
            /\ ~answers[i].ok
            /\ \A j \in 1..(i - 1) : answers[j].ok
    ELSE Len(answers)

\* the scaling puts with one try block per key: a failing query is skipped
\* and the later ones are still asked
RECURSIVE TryPuts_PerKey(_, _, _)
TryPuts_PerKey(tree, answers, i) ==
    IF i > Len(answers) THEN tree
    ELSE IF ~answers[i].ok THEN TryPuts_PerKey(tree, answers, i + 1)
    ELSE TryPuts_PerKey(put(tree, ScalingKeys[i], answers[i].val), answers, i + 1)

\* config_dump, lines 93-97 and 99-103: the puts of one try block, from the
\* i-th key on: each answered value is put, the first exception ends the block
RECURSIVE TryPuts(_, _, _)
TryPuts(tree, answers, i) ==
    IF i > Len(answers) THEN tree
    ELSE IF ~answers[i].ok THEN tree
    ELSE TryPuts(put(tree, ScalingKeys[i], answers[i].val), answers, i + 1)

\* config_dump, lines 92-104: the three scaling keys of the variant's family
\* are queried inside one try block
QueryScaling ==
    /\ pc = "scaling"
    /\ \E answers \in [1..Len(ScalingKeys) -> Answers] :
          /\ scaling' = answers
          /\ calls' = calls \o [i \in 1..Issued(answers) |->
                          Call(ScalingQueries(is_versal)[i], answers[i].ok, answers[i].val)]
          /\ child' = TryPuts(child, answers, 1)
    /\ pc' = "write_ini"
    /\ UNCHANGED <<m_device, m_output, m_flash, m_config, m_help, force, fs0, fs,
                   device, is_versal, result, cerr, cout, is_mfg, is_recovery>>

\* config_dump, lines 107-109: ptRoot holds the one section Device; write_ini
\* writes the section header and one key = value line per key of the tree
IniFile(tree) == [kind |-> "ini", section |-> "Device", data |-> tree]

\* config_dump, lines 107-110, and execute, line 195: the tree is serialized;
\* an ini_parser_error is caught nowhere and may leave a part of the file
WriteIni ==
    /\ pc = "write_ini"
    /\ \/ /\ calls' = Append(calls, Call("write_ini", TRUE, 0))
          /\ fs' = Written(fs, m_output, IniFile(child))
          /\ cout' = Append(cout, Msg("config has been dumped"))
          /\ result' = "returned"
       \/ /\ calls' = Append(calls, Call("write_ini", FALSE, 0))
          /\ \E left \in {FileAt(fs, m_output), PartialFile} :
                fs' = Written(fs, m_output, left)
          /\ result' = "ini_parser_error"
          /\ UNCHANGED cout
    /\ pc' = "done"
    /\ UNCHANGED <<m_device, m_output, m_flash, m_config, m_help, force, fs0,
                   device, child, is_versal, cerr, is_mfg, is_recovery, scaling>>

Next ==
    \/ ProcessArguments
    \/ GetDevice
    \/ ProcessOutput
    \/ DecideDump
    \/ FlasherOpen
    \/ ReadBack
    \/ QueryMandatory
    \/ IsSupported
    \/ QueryIsVersal
    \/ QueryScaling
    \/ WriteIni

Spec == Init /\ [][Next]_vars

(* ------------------------------ properties ---------------------------- *)

Done == pc = "done"
Parsed == pc # "process_arguments"
CallNames == {calls[i].name : i \in 1..Len(calls)}
\* a call of that name was issued and answered that way
Answered(name, ok) == \E i \in 1..Len(calls) : calls[i].name = name /\ calls[i].ok = ok

\* the output path named a file when execute was called
OutputExisted == m_output \in DOMAIN fs0 /\ fs0[m_output].kind # "absent"

FlashCalls == {"Flasher", "readBack"}
ConfigCalls == Range(MandatoryQueries) \cup {"is_mfg", "is_recovery", "is_versal"}
                   \cup Range(XgqQueries) \cup Range(XmcQueries) \cup {"write_ini"}
FlashPcs == {"flash_dump", "readBack"}
ConfigPcs == {"config_dump", "is_supported", "is_versal", "scaling", "write_ini"}

\* C1: a dump request whose output path exists while force is false ends in
\* the canceled operation, and the filesystem is as it was: the flasher is
\* never opened, no read-back and no query or write_ini is ever issued
C1_ExistingOutputRefused ==
    (Parsed /\ ~m_help /\ OutputExisted /\ ~force) =>
        /\ fs = fs0
        /\ CallNames \cap (FlashCalls \cup ConfigCalls) = {}
        /\ pc \notin FlashPcs \cup ConfigPcs
        /\ Done => result = "operation_canceled"

C1_Witness ==
    /\ Done /\ ~m_help /\ device.valid /\ OutputExisted /\ ~force
    /\ (m_flash \/ m_config)
    /\ result = "operation_canceled"
    /\ cerr = <<Msg("m_output file already exists")>>

\* C2: a dump request with an empty output path ends in the canceled
\* operation and creates no file, whatever the switches, the force flag and
\* the device are
C2_EmptyOutputRefused ==
    (Parsed /\ ~m_help /\ m_output = "") =>
        /\ fs = fs0
        /\ CallNames \cap (FlashCalls \cup ConfigCalls) = {}
        /\ pc \notin FlashPcs \cup ConfigPcs
        /\ Done => result = "operation_canceled"

C2_Witness ==
    /\ Done /\ ~m_help /\ device.valid /\ m_output = ""
    /\ m_flash /\ force
    /\ result = "operation_canceled"
    /\ cerr = <<Msg("ERROR: Please specify an output file")>>

\* C3: a dump request with neither --flash nor --config ends in the canceled
\* operation and creates no file; neither flash_dump nor config_dump is
\* entered
C3_NoDumpTypeRefused ==
    (Parsed /\ ~m_help /\ ~m_flash /\ ~m_config) =>
        /\ fs = fs0
        /\ CallNames \cap (FlashCalls \cup ConfigCalls) = {}
        /\ pc \notin FlashPcs \cup ConfigPcs
        /\ Done => result = "operation_canceled"

C3_Witness ==
    /\ Done /\ ~m_help /\ ~m_flash /\ ~m_config
    /\ device.valid /\ m_output # "" /\ ~OutputExisted
    /\ result = "operation_canceled"
    /\ cerr = <<Msg("ERROR: Please specify a valid option")>>

\* the device was resolved and the output option passed its two checks
PassedOutput ==
    /\ device.valid
    /\ m_output # ""
    /\ ~OutputExisted \/ force
    /\ pc \notin {"output", "dump_type"}

\* C4: with both --flash and --config, a request that resolved its device and
\* passed the output checks enters flash_dump, and no step of config_dump (no
\* query, no write_ini) is ever taken, however the flash path ends
C4_FlashWinsOverConfig ==
    (Parsed /\ ~m_help /\ m_flash /\ m_config) =>
        /\ CallNames \cap ConfigCalls = {}
        /\ pc \notin ConfigPcs
        /\ PassedOutput => (pc = "flash_dump" \/ "Flasher" \in CallNames)

C4_Witness ==
    /\ Done /\ ~m_help /\ m_flash /\ m_config /\ PassedOutput
    /\ Answered("readBack", TRUE)
    /\ fs[m_output] = FlashImage

\* the flasher was opened and was not valid
FlasherInvalid == \E i \in 1..Len(calls) : calls[i].name = "Flasher" /\ calls[i].val = 0

\* C5: flash mode on a device whose flasher is not valid creates no file,
\* does not complete successfully, and reports the device's index
C5_InvalidFlasherCancels ==
    (Done /\ FlasherInvalid) =>
        /\ fs = fs0
        /\ result # "returned"
        /\ \E i \in 1..Len(cerr) : cerr[i] = MsgIndex("is an invalid index", device.id)

\* where the tree holds a key
IndexOf(tree, key) == CHOOSE i \in 1..Len(tree) : tree[i].key = key

\* the scaling queries were asked: the configuration dump is past its try block
ScalingAsked == scaling # <<>>

FailurePath ==
    \/ Answered("get_device", FALSE)
    \/ device.valid /\ m_output = ""
    \/ device.valid /\ OutputExisted /\ ~force
    \/ PassedOutput /\ ~m_flash /\ ~m_config
    \/ FlasherInvalid
    \/ Answered("readBack", FALSE)
    \/ \E i \in 1..Len(MandatoryQueries) : Answered(MandatoryQueries[i], FALSE)
    \/ Answered("write_ini", FALSE)

\* C7: every failure path of execute ends in the one canceled-operation
\* error: none returns normally, none leaves as another error type
C7_EveryFailureIsCanceled ==
    (Done /\ ~m_help /\ FailurePath) => result = "operation_canceled"

\* C8: a dump request that execute completes successfully has its output
\* file written in full, in this run, by the writer of the selected dump
C8_SuccessMeansWritten ==
    (Done /\ ~m_help /\ result = "returned") =>
        \/ /\ m_flash
           /\ Answered("readBack", TRUE)
           /\ FileAt(fs, m_output) = FlashImage
        \/ /\ ~m_flash /\ m_config
           /\ Answered("write_ini", TRUE)
           /\ FileAt(fs, m_output) = IniFile(child)

ScalingCalls == Range(XgqQueries) \cup Range(XmcQueries)

\* C9: on a restricted device (is_mfg or is_recovery answered true) the
\* snapshot holds the four mandatory keys and nothing else; neither the
\* variant nor a scaling query is asked; the dump goes on to write_ini, and
\* when write_ini succeeds execute returns with exactly these keys written
C9_RestrictedOnlyMandatory ==
    (is_mfg \/ is_recovery) =>
        /\ Keys(child) = Range(MandatoryKeys)
        /\ Len(child) = Len(MandatoryKeys)
        /\ CallNames \cap ({"is_versal"} \cup ScalingCalls) = {}
        /\ pc \in {"write_ini", "done"}
        /\ result \notin {"query_exception", "operation_canceled"}
        /\ Done => "write_ini" \in CallNames
        /\ Answered("write_ini", TRUE) =>
              /\ result = "returned"
              /\ FileAt(fs, m_output) = IniFile(child)

C9_Witness ==
    /\ Done /\ result = "returned"
    /\ is_recovery /\ ~is_mfg
    /\ fs[m_output].kind = "ini"
    /\ fs[m_output].section = "Device"
    /\ Keys(fs[m_output].data) = Range(MandatoryKeys)

\* a dump request on a resolved device whose output path exists, with force
\* set and a dump type chosen, past the output checks
ForcedOverwrite ==
    /\ Parsed /\ ~m_help
    /\ device.valid /\ pc \notin {"output", "dump_type"}
    /\ OutputExisted /\ force
    /\ m_flash \/ m_config

\* the selected dump was entered, and the output checks raised nothing
SelectedPathEntered ==
    /\ \A i \in 1..Len(cerr) : cerr[i] # Msg("m_output file already exists")
    /\ m_flash => (pc = "flash_dump" \/ "Flasher" \in CallNames)
    /\ ~m_flash => (pc = "config_dump" \/ MandatoryQueries[1] \in CallNames)

\* C10 as stated: every such request proceeds to the selected dump and ends
\* with the existing file overwritten (stated here for the runs whose flasher
\* is valid, so that a violation does not rest on flash_dump's plain return)
C10_ForceAlwaysOverwrites ==
    (Done /\ ForcedOverwrite /\ ~FlasherInvalid) =>
        /\ SelectedPathEntered
        /\ fs[m_output].kind \in {"flash", "ini"}

\* C10 as amended: every such request passes the output checks and proceeds
\* to the selected dump; the file is overwritten with the dump when the
\* writer of that dump (readBack, write_ini) succeeds, and is as it was while
\* no writer was called; no other file changes
C10_ForcePassesOutputChecks ==
    ForcedOverwrite =>
        /\ SelectedPathEntered
        /\ Answered("readBack", TRUE) => fs[m_output] = FlashImage
        /\ Answered("write_ini", TRUE) => fs[m_output] = IniFile(child)
        /\ CallNames \cap {"readBack", "write_ini"} = {} => fs = fs0
        /\ \A p \in Paths \ {m_output} : fs[p] = fs0[p]

C10_Witness ==
    /\ Done /\ ForcedOverwrite /\ ~m_flash
    /\ fs0[m_output] = OldFile
    /\ fs[m_output].kind = "ini"
    /\ result = "returned"

\* C11: when help is requested execute returns right after the options were
\* parsed: the device is not resolved, the output option is not checked, no
\* external call is issued, nothing is reported as an error and no file
\* changes, whatever the other options, the force flag and the files are
C11_HelpShortCircuits ==
    (Parsed /\ m_help) =>
        /\ Done
        /\ result = "returned"
        /\ calls = <<>>
        /\ ~device.valid
        /\ cerr = <<>>
        /\ cout = <<Msg("help")>>
        /\ child = <<>>
        /\ fs = fs0

C11_Witness ==
    /\ Done /\ m_help /\ result = "returned"
    /\ m_output = "" /\ ~m_flash /\ ~m_config
    /\ calls = <<>>

\* C12: an is_versal query that raises a query exception is caught and mapped
\* to a default variant: the dump goes on, the scaling keys are attempted with
\* that family, write_ini is reached and the exception leaves neither
\* config_dump nor execute
C12_VersalFailureDefaults ==
    Answered("is_versal", FALSE) =>
        /\ result # "query_exception"
        /\ pc \in {"scaling", "write_ini", "done"}
        /\ Done => (ScalingAsked /\ "write_ini" \in CallNames)

\* a probe of is_supported answered true
MfgTrue == \E i \in 1..Len(calls) :
              calls[i].name = "is_mfg" /\ calls[i].ok /\ calls[i].val = 1
RecoveryTrue == \E i \in 1..Len(calls) :
              calls[i].name = "is_recovery" /\ calls[i].ok /\ calls[i].val = 1
\* how often a call was issued
Count(name) == Cardinality({i \in 1..Len(calls) : calls[i].name = name})
LastCall == calls[Len(calls)].name

MandatoryFailed ==
    \E i \in 1..Len(MandatoryQueries) : Answered(MandatoryQueries[i], FALSE)

\* C14: a mandatory query that fails is fatal to the configuration dump: the
\* query exception leaves config_dump (the run ends with it), the failing
\* query is the last call of the run (no later mandatory query, no probe of
\* the restricted state, of the variant or of a scaling key, no write_ini),
\* and the filesystem is as it was
C14_MandatoryFailureFatal ==
    /\ MandatoryFailed =>
          /\ Done
          /\ result = "query_exception"
          /\ LastCall \in Range(MandatoryQueries)
          /\ ~calls[Len(calls)].ok
          /\ CallNames \cap ({"is_mfg", "is_recovery", "is_versal", "write_ini"}
                               \cup ScalingCalls) = {}
          /\ fs = fs0
    \* write_ini is reached only after all four mandatory queries answered
    /\ (pc = "write_ini" \/ "write_ini" \in CallNames) =>
          \A i \in 1..Len(MandatoryQueries) : Answered(MandatoryQueries[i], TRUE)

C14_Witness ==
    /\ Done /\ result = "query_exception"
    /\ Answered("config_mailbox_channel_disable", TRUE)
    /\ Answered("config_mailbox_channel_switch", TRUE)
    /\ Answered("config_xclbin_change", FALSE)
    /\ fs0[m_output] = OldFile /\ fs[m_output] = OldFile

\* C15: with a valid flasher, an exception of the read-back is caught and
\* reported on std::cerr, and the run ends in the canceled operation: never in
\* success and never in another error
C15_ReadBackFailureCanceled ==
    Answered("readBack", FALSE) =>
        /\ Done
        /\ result = "operation_canceled"
        /\ cerr = <<Msg("ERROR: readBack")>>
        /\ \E i \in 1..Len(calls) :
              calls[i].name = "Flasher" /\ calls[i].val = 1

C15_Witness ==
    /\ Done /\ Answered("readBack", FALSE)
    /\ result = "operation_canceled"
    /\ fs[m_output] = PartialFile

\* the output option passes the two checks of execute
OutputAccepted == m_output # "" /\ (~OutputExisted \/ force)

\* extraction work was started: a step of flash_dump or config_dump, or a
\* write to a file
ExtractionStarted ==
    \/ pc \in FlashPcs \cup ConfigPcs
    \/ CallNames \cap (FlashCalls \cup ConfigCalls) # {}
    \/ fs # fs0

\* C16: the steps of execute come in the order options, device, output,
\* dispatch. Extraction work starts only after the device was resolved (first
\* call) and the output option was accepted (second call); a device that is
\* not resolved ends the run at once with the canceled operation: the output
\* option and the switches are not looked at, and the resolution is not tried
\* again
C16_StepsInOrder ==
    /\ ExtractionStarted =>
          /\ ~m_help
          /\ device.valid
          /\ OutputAccepted
          /\ Len(calls) >= 2
          /\ calls[1] = Call("get_device", TRUE, device.id)
          /\ calls[2].name = "exists"
    /\ pc = "output" => (Len(calls) = 1 /\ calls[1] = Call("get_device", TRUE, device.id))
    /\ pc = "dump_type" => (Len(calls) = 2 /\ device.valid /\ OutputAccepted)
    /\ Count("get_device") <= 1
    /\ Count("exists") <= 1
    /\ Answered("get_device", FALSE) =>
          /\ Done
          /\ result = "operation_canceled"
          /\ calls = <<Call("get_device", FALSE, 0)>>
          /\ cerr = <<Msg("ERROR: get_device")>>
          /\ cout = <<>>
          /\ fs = fs0

C16_Witness ==
    /\ Done /\ Answered("get_device", FALSE)
    /\ m_output = "" /\ ~m_flash /\ ~m_config
    /\ result = "operation_canceled"

\* C17: a run takes at most one of the two dumps, once: calls of flash_dump and
\* calls of config_dump never occur in the same run, no call is issued twice,
\* the flash path belongs to --flash and the config path to --config without
\* --flash, and a run that entered a dump raises no usage error; it returns
\* when the writer of the dump succeeded
C17_OneDumpPerRun ==
    LET names == CallNames
        flash == names \cap FlashCalls # {}
        config == names \cap ConfigCalls # {}
    IN
    /\ ~(flash /\ config)
    /\ Cardinality(names) = Len(calls)
    /\ (pc \in FlashPcs \/ flash) =>
          /\ m_flash
          /\ child = <<>>
          /\ pc \notin ConfigPcs
    /\ (pc \in ConfigPcs \/ config) =>
          /\ ~m_flash /\ m_config
          /\ pc \notin FlashPcs
    /\ ExtractionStarted =>
          /\ \A i \in 1..Len(cerr) : cerr[i] # Msg("ERROR: Please specify a valid option")
          /\ cout \in {<<>>, <<Msg("config has been dumped")>>}
    /\ (Answered("readBack", TRUE) \/ Answered("write_ini", TRUE)) =>
          (Done /\ result = "returned")

C17_Witness ==
    /\ Done /\ m_flash /\ m_config
    /\ Answered("readBack", TRUE)
    /\ result = "returned"
    /\ CallNames = {"get_device", "exists", "Flasher", "readBack"}

\* the value a query answered
CallVal(name) == calls[CHOOSE i \in 1..Len(calls) : calls[i].name = name].val
\* the scaling queries issued, in order
ScalingIssued == SelectSeq(calls, LAMBDA c : c.name \in ScalingCalls)

\* C18: the family of scaling queries is chosen once per build by the one
\* is_versal answer and never mixed: a versal device is asked the xgq
\* queries only, any other the xmc queries only, in the order enabled, power
\* override, temp override; a failing query of one family is followed by no
\* query of the other; the answers are stored under the same three key names
C18_OneScalingFamily ==
    LET names == CallNames
        issued == ScalingIssued
    IN
    /\ Count("is_versal") <= 1
    /\ issued # <<>> =>
          /\ Answered("is_versal", TRUE)
          /\ is_versal = (CallVal("is_versal") = 1)
          /\ is_versal => names \cap Range(XmcQueries) = {}
          /\ ~is_versal => names \cap Range(XgqQueries) = {}
    /\ Len(issued) <= Len(ScalingKeys)
    /\ \A i \in 1..Len(issued) :
          /\ issued[i].name = (IF is_versal THEN XgqQueries ELSE XmcQueries)[i]
          /\ issued[i].ok =>
                /\ \E k \in 1..Len(child) :
                      child[k] = [key |-> ScalingKeys[i], val |-> issued[i].val]
    /\ Keys(child) \subseteq Range(MandatoryKeys) \cup
          {"scaling_enabled", "scaling_power_override", "scaling_temp_override"}

C18_Witness ==
    /\ Done /\ result = "returned"
    /\ is_versal
    /\ Len(ScalingIssued) = 3
    /\ ScalingIssued[3] = Call("xgq_scaling_temp_override", TRUE, 1)
    /\ \E k \in 1..Len(fs[m_output].data) :
          fs[m_output].data[k] = [key |-> "scaling_temp_override", val |-> 1]

\* the line of one key in the written file
Line(k, v) == [key |-> k, val |-> v]

\* C19: every configuration dump that was serialized is one section Device
\* whose first four lines are the mandatory keys with the values their
\* queries answered, followed by zero to three scaling keys and nothing else,
\* no key twice; on a non-restricted device whose three scaling queries all
\* answered it has exactly seven lines carrying the seven answered values
C19_SerializedDump ==
    Answered("write_ini", TRUE) =>
        LET f == fs[m_output] IN
        /\ f.kind = "ini"
        /\ f.section = "Device"
        /\ Len(f.data) >= 4 /\ Len(f.data) <= 7
        /\ f.data[1] = Line("mailbox_channel_disable",
                            CallVal("config_mailbox_channel_disable"))
        /\ f.data[2] = Line("mailbox_channel_switch",
                            CallVal("config_mailbox_channel_switch"))
        /\ f.data[3] = Line("xclbin_change", CallVal("config_xclbin_change"))
        /\ f.data[4] = Line("cache_xclbin", CallVal("cache_xclbin"))
        /\ \A i \in 5..Len(f.data) :
              f.data[i].key \in {"scaling_enabled", "scaling_power_override",
                                 "scaling_temp_override"}
        /\ Cardinality(Keys(f.data)) = Len(f.data)
        /\ (~MfgTrue /\ ~RecoveryTrue /\ ScalingAsked
                /\ \A i \in 1..Len(scaling) : scaling[i].ok) =>
              /\ Len(f.data) = 7
              /\ f.data[5] = Line("scaling_enabled", scaling[1].val)
              /\ f.data[6] = Line("scaling_power_override", scaling[2].val)
              /\ f.data[7] = Line("scaling_temp_override", scaling[3].val)

C19_Witness ==
    /\ Done /\ result = "returned"
    /\ ~is_versal
    /\ FileAt(fs, m_output) = IniFile(<<Line("mailbox_channel_disable", 1),
                                Line("mailbox_channel_switch", 0),
                                Line("xclbin_change", 1),
                                Line("cache_xclbin", 0),
                                Line("scaling_enabled", 1),
                                Line("scaling_power_override", 0),
                                Line("scaling_temp_override", 1)>>)

\* C20: the scaling keys of a serialized dump are a prefix of (scaling_enabled,
\* scaling_power_override, scaling_temp_override), because the queries of a
\* family are issued in that order and a query that fails is the last scaling
\* query issued
C20_ScalingKeysPrefix ==
    LET issued == ScalingIssued IN
    /\ \A i \in 1..Len(issued) :
          /\ i < Len(issued) => issued[i].ok
          /\ issued[i].name \in {XgqQueries[i], XmcQueries[i]}
    /\ Answered("write_ini", TRUE) =>
          LET K == Keys(fs[m_output].data) IN
          /\ "scaling_temp_override" \in K => "scaling_power_override" \in K
          /\ "scaling_power_override" \in K => "scaling_enabled" \in K
          /\ Cardinality(K \ Range(MandatoryKeys)) =
                Cardinality({i \in 1..Len(issued) : issued[i].ok})

C20_Witness ==
    /\ Done /\ result = "returned"
    /\ ScalingAsked
    /\ scaling[1].ok /\ scaling[2].ok /\ ~scaling[3].ok
    /\ Keys(fs[m_output].data) = Range(MandatoryKeys) \cup
          {"scaling_enabled", "scaling_power_override"}

====
